---------------------------- MODULE Spec2Model ----------------------------
(***************************************************************************)
(* Label Mail Merge: the CSV parser, the template substitution, the inline *)
(* markdown segmenter, the line wrapper and the grid paginator.            *)
(*                                                                         *)
(* A JavaScript string is modelled as a sequence of one-character strings, *)
(* so that trimming, splitting, case conversion and scanning are computed  *)
(* character by character as the code computes them.                       *)
(***************************************************************************)
EXTENDS Naturals, Integers, Sequences, FiniteSets, TLC

VARIABLES
  pc,          \* position of the operation under analysis
  csvInput,    \* App state csvInput: the raw pasted text
  parsedData,  \* App memo parsedData = parseCSV(csvInput)
  template,    \* applyTemplate: the template argument
  record,      \* applyTemplate: the data argument (one row object)
  content,     \* applyTemplate: the returned string
  mdText,      \* parseMarkdownToSegments: the text argument
  segments,    \* parseMarkdownToSegments: the returned segments
  wrapIn,      \* splitIntoLines: segments, maxWidth and the font metrics
  lines,       \* splitIntoLines: the returned lines
  pdf,         \* generatePDF: options, loop counters and the document
  scan,        \* parseLine: the line and delimiter arguments and the fields
  app          \* App: the state handleGeneratePDF reads and writes

vars == <<pc, csvInput, parsedData, template, record, content, mdText,
          segments, wrapIn, lines, pdf, scan, app>>

(***************************************************************************)
(* Strings                                                                 *)
(***************************************************************************)
LowerLetters ==
  <<"a","b","c","d","e","f","g","h","i","j","k","l","m",
    "n","o","p","q","r","s","t","u","v","w","x","y","z">>

UpperLetters ==
  <<"A","B","C","D","E","F","G","H","I","J","K","L","M",
    "N","O","P","Q","R","S","T","U","V","W","X","Y","Z">>

Digits == <<"0","1","2","3","4","5","6","7","8","9">>

Range(s) == { s[i] : i \in DOMAIN s }

IsLetter(c) == c \in Range(LowerLetters) \cup Range(UpperLetters)

IsDigit(c) == c \in Range(Digits)

\* the characters JavaScript's \s and String.prototype.trim treat as white space
IsWhitespace(c) == c \in {" ", "\t", "\n", "\r", "\f"}

ToLowerChar(c) ==
  IF c \in Range(UpperLetters)
    THEN LowerLetters[CHOOSE i \in DOMAIN UpperLetters : UpperLetters[i] = c]
    ELSE c

ToUpperChar(c) ==
  IF c \in Range(LowerLetters)
    THEN UpperLetters[CHOOSE i \in DOMAIN LowerLetters : LowerLetters[i] = c]
    ELSE c

ToLowerCase(s) == [i \in DOMAIN s |-> ToLowerChar(s[i])]

ToUpperCase(s) == [i \in DOMAIN s |-> ToUpperChar(s[i])]

SetMin(S) == CHOOSE x \in S : \A y \in S : x <= y

SetMax(S) == CHOOSE x \in S : \A y \in S : x >= y

Trim(s) ==
  LET keep == { i \in DOMAIN s : ~IsWhitespace(s[i]) }
  IN  IF keep = {} THEN <<>> ELSE SubSeq(s, SetMin(keep), SetMax(keep))

RECURSIVE Concat(_)
Concat(ss) == IF ss = <<>> THEN <<>> ELSE Head(ss) \o Concat(Tail(ss))

RECURSIVE JoinWith(_, _)
JoinWith(ss, sep) ==
  IF ss = <<>> THEN <<>>
  ELSE IF Len(ss) = 1 THEN Head(ss)
  ELSE Head(ss) \o sep \o JoinWith(Tail(ss), sep)

\* the decimal digits of a number, as template literals print it
RECURSIVE NatToStr(_)
NatToStr(n) ==
  IF n < 10 THEN <<Digits[n + 1]>>
  ELSE NatToStr(n \div 10) \o <<Digits[(n % 10) + 1]>>

\* s.startsWith(p, i), 1-based
StartsWithAt(s, p, i) ==
  /\ i + Len(p) - 1 <= Len(s)
  /\ \A k \in 1..Len(p) : s[i + k - 1] = p[k]

\* text.split(/\r?\n/)
RECURSIVE SplitLinesFrom(_, _, _, _)
SplitLinesFrom(text, i, cur, acc) ==
  IF i > Len(text) THEN Append(acc, cur)
  ELSE IF text[i] = "\r" /\ i < Len(text) /\ text[i + 1] = "\n"
    THEN SplitLinesFrom(text, i + 2, <<>>, Append(acc, cur))
  ELSE IF text[i] = "\n"
    THEN SplitLinesFrom(text, i + 1, <<>>, Append(acc, cur))
  ELSE SplitLinesFrom(text, i + 1, Append(cur, text[i]), acc)

SplitLines(text) == SplitLinesFrom(text, 1, <<>>, <<>>)

\* the dictionary of common address column names, lower case
KNOWN_HEADERS ==
  { <<"n","a","m","e">>, <<"f","i","r","s","t"," ","n","a","m","e">>,
    <<"f","i","r","s","t","n","a","m","e">>, <<"f","i","r","s","t","_","n","a","m","e">>,
    <<"f","n","a","m","e">>, <<"l","a","s","t"," ","n","a","m","e">>,
    <<"l","a","s","t","n","a","m","e">>, <<"l","a","s","t","_","n","a","m","e">>,
    <<"l","n","a","m","e">>, <<"s","u","r","n","a","m","e">>,
    <<"f","u","l","l"," ","n","a","m","e">>, <<"f","u","l","l","n","a","m","e">>,
    <<"f","u","l","l","_","n","a","m","e">>, <<"a","d","d","r","e","s","s">>,
    <<"a","d","d","r","e","s","s","1">>, <<"a","d","d","r","e","s","s"," ","1">>,
    <<"a","d","d","r","e","s","s","_","1">>, <<"s","t","r","e","e","t">>,
    <<"s","t","r","e","e","t"," ","a","d","d","r","e","s","s">>,
    <<"s","t","r","e","e","t","_","a","d","d","r","e","s","s">>,
    <<"a","d","d","r","e","s","s","2">>, <<"a","d","d","r","e","s","s"," ","2">>,
    <<"a","d","d","r","e","s","s","_","2">>, <<"a","p","t">>,
    <<"a","p","a","r","t","m","e","n","t">>, <<"s","u","i","t","e">>, <<"u","n","i","t">>,
    <<"c","i","t","y">>, <<"t","o","w","n">>, <<"s","t","a","t","e">>,
    <<"p","r","o","v","i","n","c","e">>, <<"r","e","g","i","o","n">>, <<"z","i","p">>,
    <<"z","i","p","c","o","d","e">>, <<"z","i","p"," ","c","o","d","e">>,
    <<"z","i","p","_","c","o","d","e">>, <<"p","o","s","t","a","l">>,
    <<"p","o","s","t","a","l"," ","c","o","d","e">>,
    <<"p","o","s","t","a","l","_","c","o","d","e">>, <<"p","o","s","t","c","o","d","e">>,
    <<"c","o","u","n","t","r","y">>, <<"n","a","t","i","o","n">>, <<"e","m","a","i","l">>,
    <<"e","-","m","a","i","l">>, <<"e","m","a","i","l"," ","a","d","d","r","e","s","s">>,
    <<"e","m","a","i","l","_","a","d","d","r","e","s","s">>, <<"p","h","o","n","e">>,
    <<"t","e","l","e","p","h","o","n","e">>,
    <<"p","h","o","n","e"," ","n","u","m","b","e","r">>,
    <<"p","h","o","n","e","_","n","u","m","b","e","r">>, <<"t","e","l">>,
    <<"c","o","m","p","a","n","y">>, <<"o","r","g","a","n","i","z","a","t","i","o","n">>,
    <<"o","r","g">>, <<"b","u","s","i","n","e","s","s">>, <<"t","i","t","l","e">>,
    <<"p","r","e","f","i","x">>, <<"s","u","f","f","i","x">>,
    <<"s","a","l","u","t","a","t","i","o","n">>,
    <<"d","e","p","a","r","t","m","e","n","t">>, <<"d","e","p","t">> }

(***************************************************************************)
(* csv-parser                                                              *)
(***************************************************************************)
CountChar(s, c) == Cardinality({ i \in DOMAIN s : s[i] = c })

detectDelimiter(text) ==
  LET firstLine == SplitLines(text)[1]
      tabCount == CountChar(firstLine, "\t")
      commaCount == CountChar(firstLine, ",")
  IN  IF tabCount > commaCount THEN "\t" ELSE ","

\* the scanner loop of parseLine from position i on
RECURSIVE parseLineFrom(_, _, _, _, _, _)
parseLineFrom(line, delimiter, i, fields, current, inQuotes) ==
  IF i > Len(line) THEN Append(fields, Trim(current))
  ELSE
    LET char == line[i]
        nextIsQuote == i < Len(line) /\ line[i + 1] = "\""
    IN  IF inQuotes
          THEN IF char = "\"" /\ nextIsQuote
                 THEN parseLineFrom(line, delimiter, i + 2, fields,
                                    Append(current, "\""), TRUE)
               ELSE IF char = "\""
                 THEN parseLineFrom(line, delimiter, i + 1, fields, current, FALSE)
               ELSE parseLineFrom(line, delimiter, i + 1, fields,
                                  Append(current, char), TRUE)
          ELSE IF char = "\""
                 THEN parseLineFrom(line, delimiter, i + 1, fields, current, TRUE)
               ELSE IF char = delimiter
                 THEN parseLineFrom(line, delimiter, i + 1,
                                    Append(fields, Trim(current)), <<>>, FALSE)
               ELSE parseLineFrom(line, delimiter, i + 1, fields,
                                  Append(current, char), FALSE)

\* a scanner that drops the quotes and splits at every delimiter
parseLineIgnoringQuotes(line, delimiter) ==
  parseLineFrom(SelectSeq(line, LAMBDA c : c # "\""), delimiter, 1, <<>>, <<>>, FALSE)

parseLine(line, delimiter) == parseLineFrom(line, delimiter, 1, <<>>, <<>>, FALSE)

matchCountOf(firstRow) ==
  Cardinality({ i \in DOMAIN firstRow :
                  Trim(ToLowerCase(firstRow[i])) \in KNOWN_HEADERS })

detectHeadersAnyMatch(firstRow) == matchCountOf(firstRow) > 0

detectHeaders(firstRow) ==
  LET matchCount == matchCountOf(firstRow)
  IN  matchCount >= 2 \/ (matchCount > 0 /\ 2 * matchCount >= Len(firstRow))

generateColumnHeaders(count) ==
  [i \in 1..count |-> <<"C","o","l","u","m","n">> \o NatToStr(i)]

\* header.replace(/[^a-zA-Z0-9\s_-]/g, '')
StripSpecial(header) ==
  SelectSeq(header, LAMBDA c : IsLetter(c) \/ IsDigit(c) \/ IsWhitespace(c)
                               \/ c = "_" \/ c = "-")

IsWordSeparator(c) == IsWhitespace(c) \/ c = "_" \/ c = "-"

\* cleaned.split(/[\s_-]+/): a run of separators ends a word, and a leading
\* or trailing run leaves an empty word
RECURSIVE SplitWordsFrom(_, _, _, _)
SplitWordsFrom(s, i, cur, acc) ==
  IF i > Len(s) THEN Append(acc, cur)
  ELSE IF IsWordSeparator(s[i])
    THEN IF i > 1 /\ IsWordSeparator(s[i - 1])
           THEN SplitWordsFrom(s, i + 1, cur, acc)
           ELSE SplitWordsFrom(s, i + 1, <<>>, Append(acc, cur))
  ELSE SplitWordsFrom(s, i + 1, Append(cur, s[i]), acc)

SplitWords(s) == SplitWordsFrom(s, 1, <<>>, <<>>)

\* word.charAt(0).toUpperCase() + word.slice(1).toLowerCase()
TitleCase(word) ==
  IF word = <<>> THEN <<>>
  ELSE <<ToUpperChar(word[1])>> \o ToLowerCase(Tail(word))

normalizeHeader(header) ==
  LET cleaned == Trim(StripSpecial(header))
      words == SplitWords(cleaned)
  IN  Concat([i \in DOMAIN words |-> TitleCase(words[i])])

\* the headers.map(...) over headerCounts, from index j on
RECURSIVE uniqueHeadersFrom(_, _, _, _)
uniqueHeadersFrom(headers, j, headerCounts, acc) ==
  IF j > Len(headers) THEN acc
  ELSE
    LET header == headers[j]
        count == IF header \in DOMAIN headerCounts THEN headerCounts[header] ELSE 0
        counts == [h \in DOMAIN headerCounts \cup {header} |->
                     IF h = header THEN count + 1 ELSE headerCounts[h]]
        out == IF count > 0 THEN header \o NatToStr(count + 1) ELSE header
    IN  uniqueHeadersFrom(headers, j + 1, counts, Append(acc, out))

uniqueHeaders(headers) == uniqueHeadersFrom(headers, 1, <<>>, <<>>)

\* the row object after row[header] = fields[j] ?? '' for j = 0..headers.length-1:
\* one own property per distinct header, holding the last value assigned to it
rowObject(headers, fields) ==
  [h \in Range(headers) |->
     LET j == SetMax({ k \in DOMAIN headers : headers[k] = h })
     IN  IF j <= Len(fields) THEN fields[j] ELSE <<>>]

EmptyParsedData == [headers |-> <<>>, rows |-> <<>>, hasHeaders |-> FALSE]

NonBlankLines(text) == SelectSeq(SplitLines(text), LAMBDA line : Trim(line) # <<>>)

\* parseCSV up to the first row: the delimiter and the fields of lines[0]
firstRowOf(text) == parseLine(NonBlankLines(text)[1], detectDelimiter(text))

\* parseCSV before the uniqueness pass: the normalized or generated headers
rawHeadersOf(firstRow) ==
  IF detectHeaders(firstRow)
    THEN [i \in DOMAIN firstRow |-> normalizeHeader(firstRow[i])]
    ELSE generateColumnHeaders(Len(firstRow))

parseCSV(text) ==
  LET textLines == NonBlankLines(text)
  IN  IF Len(textLines) = 0 THEN EmptyParsedData
      ELSE
        LET delimiter == detectDelimiter(text)
            firstRow == firstRowOf(text)
            hasHeaders == detectHeaders(firstRow)
            dataStartIndex == IF hasHeaders THEN 1 ELSE 0
            headers == uniqueHeaders(rawHeadersOf(firstRow))
        IN  [headers |-> headers,
             rows |-> [i \in 1..(Len(textLines) - dataStartIndex) |->
                         rowObject(headers,
                                   parseLine(textLines[i + dataStartIndex], delimiter))],
             hasHeaders |-> hasHeaders]

\* the properties every row object inherits: parseCSV builds each row as the
\* object literal {}, whose prototype is Object.prototype
ObjectPrototypeKeys ==
  { <<"c","o","n","s","t","r","u","c","t","o","r">>,
    <<"t","o","S","t","r","i","n","g">>,
    <<"v","a","l","u","e","O","f">>,
    <<"h","a","s","O","w","n","P","r","o","p","e","r","t","y">>,
    <<"i","s","P","r","o","t","o","t","y","p","e","O","f">>,
    <<"p","r","o","p","e","r","t","y","I","s","E","n","u","m","e","r","a","b","l","e">>,
    <<"t","o","L","o","c","a","l","e","S","t","r","i","n","g">>,
    <<"_","_","p","r","o","t","o","_","_">>,
    <<"_","_","d","e","f","i","n","e","G","e","t","t","e","r","_","_">>,
    <<"_","_","d","e","f","i","n","e","S","e","t","t","e","r","_","_">>,
    <<"_","_","l","o","o","k","u","p","G","e","t","t","e","r","_","_">>,
    <<"_","_","l","o","o","k","u","p","S","e","t","t","e","r","_","_">> }

\* what String.prototype.replace inserts for an inherited property: the
\* string conversion of a native function, or of Object.prototype itself
InheritedText(key) ==
  IF key = <<"_","_","p","r","o","t","o","_","_">>
    THEN <<"[","o","b","j","e","c","t"," ","O","b","j","e","c","t","]">>
    ELSE <<"f","u","n","c","t","i","o","n"," ">>
         \o (IF key = <<"c","o","n","s","t","r","u","c","t","o","r">>
               THEN <<"O","b","j","e","c","t">> ELSE key)
         \o <<"(",")"," ","{"," ","[","n","a","t","i","v","e"," ","c","o","d","e","]"," ","}">>

\* data[key] ?? match
lookupOrMatch(data, key, match) ==
  IF key \in DOMAIN data THEN data[key]
  ELSE IF key \in ObjectPrototypeKeys THEN InheritedText(key)
  ELSE match

\* /<<([^>]+)>>/ tried at position i: the index of the first '>' of the
\* closing ">>", or 0 when the pattern does not match at i
placeholderEndAt(tpl, i) ==
  IF ~StartsWithAt(tpl, <<"<","<">>, i) THEN 0
  ELSE
    LET closers == { k \in (i + 2)..Len(tpl) : tpl[k] = ">" }
    IN  IF closers = {} THEN 0
        ELSE LET j == SetMin(closers)
             IN  IF j > i + 2 /\ j < Len(tpl) /\ tpl[j + 1] = ">"
                   THEN j ELSE 0

\* template.replace(/<<([^>]+)>>/g, callback): one left-to-right pass over
\* the tpl; the text the callback returns is copied, never scanned
RECURSIVE replaceFrom(_, _, _, _)
replaceFrom(tpl, data, i, out) ==
  IF i > Len(tpl) THEN out
  ELSE
    LET j == placeholderEndAt(tpl, i)
    IN  IF j = 0 THEN replaceFrom(tpl, data, i + 1, Append(out, tpl[i]))
        ELSE replaceFrom(tpl, data, j + 2,
                         out \o lookupOrMatch(data, Trim(SubSeq(tpl, i + 2, j - 1)),
                                              SubSeq(tpl, i, j + 1)))

\* a substitution that scans its own output again
applyTemplateRescanning(tpl, data) ==
  replaceFrom(replaceFrom(tpl, data, 1, <<>>), data, 1, <<>>)

applyTemplate(tpl, data) == replaceFrom(tpl, data, 1, <<>>)

(***************************************************************************)
(* markdown                                                                *)
(***************************************************************************)
\* text.split('\n')
RECURSIVE SplitOnFrom(_, _, _, _, _)
SplitOnFrom(text, sep, i, cur, acc) ==
  IF i > Len(text) THEN Append(acc, cur)
  ELSE IF text[i] = sep THEN SplitOnFrom(text, sep, i + 1, <<>>, Append(acc, cur))
  ELSE SplitOnFrom(text, sep, i + 1, Append(cur, text[i]), acc)

SplitOn(text, sep) == SplitOnFrom(text, sep, 1, <<>>, <<>>)

TextSegment(text, style) ==
  [text |-> text, bold |-> style.bold, italic |-> style.italic,
   underline |-> style.underline, newline |-> FALSE]

NewlineSegment ==
  [text |-> <<>>, bold |-> FALSE, italic |-> FALSE, underline |-> FALSE,
   newline |-> TRUE]

PlainStyle == [bold |-> FALSE, italic |-> FALSE, underline |-> FALSE]

\* if (buffer) segments.push({text: buffer, ...current style})
flushBuffer(segs, buffer, style) ==
  IF buffer # <<>> THEN Append(segs, TextSegment(buffer, style)) ELSE segs

CharAt(s, i) == IF i \in DOMAIN s THEN s[i] ELSE "undefined"

\* the while loop over one line, from position i on (1-based); the result
\* holds the segments so far and the toggles the line ends with
RECURSIVE scanInline(_, _, _, _, _)
scanInline(remaining, i, style, buffer, segs) ==
  IF i > Len(remaining)
    THEN [segments |-> flushBuffer(segs, buffer, style), style |-> style]
  ELSE
    LET char == remaining[i]
        nextChar == CharAt(remaining, i + 1)
        prevChar == CharAt(remaining, i - 1)
    IN  IF (char = "*" /\ nextChar = "*") \/ (char = "_" /\ nextChar = "_")
          THEN scanInline(remaining, i + 2, [style EXCEPT !.bold = ~style.bold],
                          <<>>, flushBuffer(segs, buffer, style))
        ELSE IF /\ (char = "*" /\ nextChar # "*") \/ (char = "_" /\ nextChar # "_")
                /\ prevChar # "\\"
          THEN scanInline(remaining, i + 1, [style EXCEPT !.italic = ~style.italic],
                          <<>>, flushBuffer(segs, buffer, style))
        ELSE IF char = "~" /\ nextChar = "~"
          THEN scanInline(remaining, i + 2,
                          [style EXCEPT !.underline = ~style.underline],
                          <<>>, flushBuffer(segs, buffer, style))
        ELSE scanInline(remaining, i + 1, style, Append(buffer, char), segs)

\* toggles that are kept from the end of the previous line
carriedStyle(previous) == previous

\* let currentBold = false; let currentItalic = false; let currentUnderline = false
\* at the top of the loop body: the toggles every line starts with
lineStartStyle(previous) == PlainStyle

\* the for loop over the lines, from lineIndex on (1-based)
RECURSIVE segmentLinesFrom(_, _, _, _)
segmentLinesFrom(textLines, lineIndex, previous, segs) ==
  IF lineIndex > Len(textLines) THEN segs
  ELSE
    LET started == IF lineIndex > 1 THEN Append(segs, NewlineSegment) ELSE segs
        scanned == scanInline(textLines[lineIndex], 1, lineStartStyle(previous),
                              <<>>, started)
    IN  segmentLinesFrom(textLines, lineIndex + 1, scanned.style, scanned.segments)

parseMarkdownToSegments(text) ==
  segmentLinesFrom(SplitOn(text, "\n"), 1, PlainStyle, <<>>)

(***************************************************************************)
(* pdf-generator: line wrapping                                            *)
(***************************************************************************)
getFontName(bold, italic) ==
  IF bold /\ italic THEN "Helvetica-BoldOblique"
  ELSE IF bold THEN "Helvetica-Bold"
  ELSE IF italic THEN "Helvetica-Oblique"
  ELSE "Helvetica"

\* doc.font(font).fontSize(fontSize); doc.widthOfString(word): the document
\* backend measures a string glyph by glyph in the current font; metrics
\* gives the advance of a letter and of a white-space character, and what a
\* bold face adds to each
widthOfString(metrics, font, word) ==
  LET heavy == font \in {"Helvetica-Bold", "Helvetica-BoldOblique"}
      glyph(c) == (IF IsWhitespace(c) THEN metrics.space ELSE metrics.letter)
                  + (IF heavy THEN metrics.bold ELSE 0)
      RECURSIVE Sum(_)
      Sum(s) == IF s = <<>> THEN 0 ELSE glyph(Head(s)) + Sum(Tail(s))
  IN  Sum(word)

\* segment.text.split(/(\s+)/): the words and the white-space runs between
\* them, in order; a text that starts or ends with white space yields an
\* empty first or last word
RECURSIVE SplitKeepingSpacesFrom(_, _, _, _, _)
SplitKeepingSpacesFrom(s, i, cur, inSpace, acc) ==
  IF i > Len(s)
    THEN IF inSpace THEN Append(Append(acc, cur), <<>>) ELSE Append(acc, cur)
  ELSE IF IsWhitespace(s[i]) = inSpace
    THEN SplitKeepingSpacesFrom(s, i + 1, Append(cur, s[i]), inSpace, acc)
  ELSE SplitKeepingSpacesFrom(s, i + 1, <<s[i]>>, ~inSpace, Append(acc, cur))

SplitKeepingSpaces(s) == SplitKeepingSpacesFrom(s, 1, <<>>, FALSE, <<>>)

\* a wrap test that forgets the width of the word being added
lineIsFullIgnoringWord(currentWidth, wordWidth, maxWidth, currentLine) ==
  currentWidth > maxWidth /\ Len(currentLine) > 0

\* currentWidth + wordWidth > maxWidth && currentLine.length > 0
lineIsFull(currentWidth, wordWidth, maxWidth, currentLine) ==
  currentWidth + wordWidth > maxWidth /\ Len(currentLine) > 0

\* the inner loop over the words of one segment, from word j on; st holds
\* lines, currentLine and currentWidth
RECURSIVE wrapWordsFrom(_, _, _, _, _, _)
wrapWordsFrom(words, j, segment, metrics, maxWidth, st) ==
  IF j > Len(words) THEN st
  ELSE
    LET word == words[j]
        wordWidth == widthOfString(metrics, getFontName(segment.bold, segment.italic),
                                   word)
        closed == IF lineIsFull(st.currentWidth, wordWidth, maxWidth, st.currentLine)
                    THEN [lines |-> Append(st.lines, st.currentLine),
                          currentLine |-> <<>>, currentWidth |-> 0]
                    ELSE st
    IN  IF word = <<>> THEN wrapWordsFrom(words, j + 1, segment, metrics, maxWidth, st)
        ELSE IF Len(closed.currentLine) = 0 /\ Trim(word) = <<>>
          THEN wrapWordsFrom(words, j + 1, segment, metrics, maxWidth, closed)
        ELSE wrapWordsFrom(words, j + 1, segment, metrics, maxWidth,
               [lines |-> closed.lines,
                currentLine |-> Append(closed.currentLine,
                                       [text |-> word, bold |-> segment.bold,
                                        italic |-> segment.italic,
                                        underline |-> segment.underline,
                                        newline |-> FALSE]),
                currentWidth |-> closed.currentWidth + wordWidth])

\* a line break that leaves the current line open
breakLineKeepingLine(st) == st

\* if (segment.newline) { if (currentLine.length > 0) lines.push(currentLine);
\* currentLine = []; currentWidth = 0; continue; }
breakLine(st) ==
  [lines |-> IF Len(st.currentLine) > 0
               THEN Append(st.lines, st.currentLine) ELSE st.lines,
   currentLine |-> <<>>, currentWidth |-> 0]

\* the outer loop over the segments, from segment k on
RECURSIVE wrapSegmentsFrom(_, _, _, _, _)
wrapSegmentsFrom(segs, k, metrics, maxWidth, st) ==
  IF k > Len(segs) THEN st
  ELSE IF segs[k].newline
    THEN wrapSegmentsFrom(segs, k + 1, metrics, maxWidth, breakLine(st))
  ELSE wrapSegmentsFrom(segs, k + 1, metrics, maxWidth,
         wrapWordsFrom(SplitKeepingSpaces(segs[k].text), 1, segs[k], metrics,
                       maxWidth, st))

splitIntoLines(segs, metrics, maxWidth) ==
  LET st == wrapSegmentsFrom(segs, 1, metrics, maxWidth,
                             [lines |-> <<>>, currentLine |-> <<>>, currentWidth |-> 0])
  IN  IF Len(st.currentLine) > 0 THEN Append(st.lines, st.currentLine) ELSE st.lines

\* renderLabelContent: lineWidth += doc.widthOfString(segment.text)
lineWidthOf(metrics, line) ==
  LET RECURSIVE Sum(_)
      Sum(s) == IF s = <<>> THEN 0
                ELSE widthOfString(metrics, getFontName(Head(s).bold, Head(s).italic),
                                   Head(s).text) + Sum(Tail(s))
  IN  Sum(line)

(***************************************************************************)
(* pdf-generator: generatePDF                                              *)
(***************************************************************************)
\* Math.ceil(a / b) for a >= 0 and b > 0
CeilDiv(a, b) == (a + b - 1) \div b

labelsPerPageOf(format) == format.columns * format.rows

\* a page count rounded down
totalPagesFloor(count, format) == count \div labelsPerPageOf(format)

\* const totalPages = Math.ceil(data.length / labelsPerPage)
totalPagesOf(count, format) == CeilDiv(count, labelsPerPageOf(format))

\* an index that strides by the row count
dataIndexByRows(page, row, col, format) ==
  page * labelsPerPageOf(format) + row * format.rows + col

\* const dataIndex = startIndex + row * format.columns + col, 0-based
dataIndexOf(page, row, col, format) ==
  page * labelsPerPageOf(format) + row * format.columns + col

labelX(col, format) == format.marginLeft + col * (format.labelWidth + format.horizontalGap)

labelY(row, format) == format.marginTop + row * (format.labelHeight + format.verticalGap)

\* App: the page count of the records-info line, shown when there are
\* records and a selected format
announcedPages(count, format) == CeilDiv(count, format.columns * format.rows)

\* const markLength = 10
markLength == 10

\* const markOffset = 2
markOffset == 2

Segment(x1, y1, x2, y2) == [x1 |-> x1, y1 |-> y1, x2 |-> x2, y2 |-> y2]

\* the marks drawCutMarks strokes at the grid intersection (row, col), in the
\* order of the four if statements; gap / 2 is exact for the even gaps of
\* the formats considered
cutMarksAt(row, col, format) ==
  LET x == labelX(col, format)
      y == labelY(row, format)
      adjustedX == IF col > 0 THEN x - format.horizontalGap \div 2 ELSE x
      adjustedY == IF row > 0 THEN y - format.verticalGap \div 2 ELSE y
      left == Segment(adjustedX - markOffset - markLength, adjustedY,
                      adjustedX - markOffset, adjustedY)
      right == Segment(adjustedX + markOffset, adjustedY,
                       adjustedX + markOffset + markLength, adjustedY)
      up == Segment(adjustedX, adjustedY - markOffset - markLength,
                    adjustedX, adjustedY - markOffset)
      down == Segment(adjustedX, adjustedY + markOffset,
                      adjustedX, adjustedY + markOffset + markLength)
  IN  (IF row = 0 \/ col = 0 THEN <<left, up>> ELSE <<>>)
      \o (IF col = format.columns THEN <<right, up>> ELSE <<>>)
      \o (IF row = format.rows THEN <<left, down>> ELSE <<>>)
      \o (IF col = format.columns /\ row = format.rows THEN <<right, down>> ELSE <<>>)

\* the two loops of drawCutMarks, row <= format.rows and col <= format.columns
drawCutMarks(format) ==
  Concat([k \in 1..((format.rows + 1) * (format.columns + 1)) |->
            cutMarksAt((k - 1) \div (format.columns + 1),
                       (k - 1) % (format.columns + 1), format)])

(***************************************************************************)
(* app: handleGeneratePDF                                                  *)
(***************************************************************************)
\* error: string | null, a message being the sequence of its parts
NoError == <<>>

\* no exception thrown, no rejection reason
NoReason == "none"

\* a validation that tests the paper format only
validationErrorFormatOnly(hasFormat, rowCount) ==
  IF ~hasFormat THEN <<"Please select a paper format">> ELSE NoError

\* the two checks at the top of handleGeneratePDF: the message passed to
\* setError before the early return, or null when both pass
validationError(hasFormat, rowCount) ==
  IF ~hasFormat THEN <<"Please select a paper format">>
  ELSE IF rowCount = 0 THEN <<"Please enter some data">>
  ELSE NoError

\* disabled={isGenerating || parsedData.rows.length === 0}
buttonDisabled(isGenerating, rowCount) == isGenerating \/ rowCount = 0

NoPromise == [state |-> "none", reason |-> NoReason]

\* new Promise(...) after the executor ran: rejected when the layout threw,
\* pending until the stream ends otherwise
promiseAfterLayout(thrown) ==
  IF thrown = NoReason THEN [state |-> "pending", reason |-> NoReason]
  ELSE [state |-> "rejected", reason |-> thrown]

\* an await that continues as soon as the promise is settled either way
blobReadyWhenSettled(promise) == promise.state # "pending"

\* const blob = await generatePDF(options): the statements after the await
\* run only when the promise is resolved
blobReady(promise) == promise.state = "resolved"

\* `Failed to generate PDF: ${e instanceof Error ? e.message : 'Unknown error'}`
\* for a rejection with an Error
failureMessage(reason) == <<"Failed to generate PDF: ", reason>>

\* a caller that keeps the result of the latest invocation only
deliverIfLatest(downloads, id, latest) ==
  IF id = latest THEN Append(downloads, [id |-> id, latest |-> latest]) ELSE downloads

\* the download link: createObjectURL(blob), a.click(), revokeObjectURL;
\* latest is the number of invocations started so far
deliver(downloads, id, latest) == Append(downloads, [id |-> id, latest |-> latest])

\* isGenerating left as it is
finallyKeepsGenerating(isGenerating) == isGenerating

\* finally { setIsGenerating(false) }
finallyIsGenerating(isGenerating) == FALSE

\* App: parsedData = useMemo(..., [csvInput])
parsedDataOf(input) ==
  IF Trim(input) = <<>> THEN EmptyParsedData ELSE parseCSV(input)

(***************************************************************************)
(* Inputs of the parser: a first line of up to MaxFields fields, followed  *)
(* by up to MaxDataLines further lines.                                    *)
(***************************************************************************)
MaxFields == 3

MaxDataLines == 2

\* first-line fields: two dictionary names (one capitalised), a name that is
\* not in the dictionary and ends in a digit, an empty field, a field of
\* punctuation only and a two-word field
HeaderFieldChoices ==
  { <<"a","p","t">>, <<"T","e","l">>, <<"a","p","t","2">>, <<>>, <<"!">>,
    <<"z","i","p"," ","c","o","d","e">> }

\* further lines: one field, and five fields with a quoted comma and a
\* padded field
DataLineChoices ==
  { <<"v">>,
    <<"a",",","\"","b",",","c","\"",","," ","d",",","e",",","f">> }

SeqsUpTo(S, lo, hi) == UNION { [1..n -> S] : n \in lo..hi }

FirstLines == { JoinWith(fs, <<",">>) : fs \in SeqsUpTo(HeaderFieldChoices, 1, MaxFields) }

\* what precedes the first line: nothing, or a blank line ended by \r\n
LeadingChoices == { <<>>, <<" ", "\r", "\n">> }

\* tab-separated text: two names, a name and a field holding a comma, or
\* two tabs against one comma; then nothing or a line of two fields; after
\* nothing, a blank line, or a blank line made of a tab
TabFirstLines ==
  { <<"a","p","t","\t","T","e","l">>,
    <<"a","p","t","\t","a",",","b">>,
    <<"a","\t","b",",","c","\t","d">> }

TabTexts ==
  { lead \o JoinWith(<<first>> \o rest, <<"\n">>) :
      lead \in LeadingChoices \cup { <<"\t", "\n">> },
      first \in TabFirstLines \cup { <<"a","p","t",",","T","e","l">> },
      rest \in { <<>>, << <<"v","\t","w",",","x">> >> } }

CsvTexts ==
  { lead \o JoinWith(<<first>> \o rest, <<"\n">>) :
      lead \in LeadingChoices, first \in FirstLines,
      rest \in SeqsUpTo(DataLineChoices, 0, MaxDataLines) }
  \cup { <<>>, <<" ", "\n">> }
  \cup TabTexts

(***************************************************************************)
(* State                                                                   *)
(***************************************************************************)
CsvIdle == csvInput = <<>> /\ parsedData = EmptyParsedData

TemplateIdle == template = <<>> /\ record = <<>> /\ content = <<>>

MarkdownIdle == mdText = <<>> /\ segments = <<>>

WrapIdle == wrapIn = <<>> /\ lines = <<>>

PdfIdle == pdf = <<>>

ScanIdle == scan = <<>>

AppIdle == app = <<>>

(***************************************************************************)
(* The parser applied to an input                                          *)
(***************************************************************************)
InitCSV ==
  /\ pc = "csv"
  /\ csvInput \in CsvTexts
  /\ parsedData = EmptyParsedData
  /\ TemplateIdle /\ MarkdownIdle /\ WrapIdle /\ PdfIdle /\ ScanIdle /\ AppIdle

ParseInput ==
  /\ pc = "csv"
  /\ parsedData' = parsedDataOf(csvInput)
  /\ pc' = "parsed"
  /\ UNCHANGED <<csvInput, template, record, content, mdText, segments,
                 wrapIn, lines, pdf, scan, app>>

NextCSV == ParseInput

SpecCSV == InitCSV /\ [][NextCSV]_vars

(***************************************************************************)
(* Claims about the parser                                                 *)
(***************************************************************************)
HasDuplicates(s) == \E i, j \in DOMAIN s : i # j /\ s[i] = s[j]

\* the fields of the k-th non-blank line of the input
LineFields(k) == parseLine(NonBlankLines(csvInput)[k], detectDelimiter(csvInput))

\* the input line that record i of parsedData was read from
RecordLine(i) == IF parsedData.hasHeaders THEN i + 1 ELSE i

\* C2: every record of parseCSV(text).rows has exactly headers.length fields,
\* holding the input row's fields padded with empty strings or truncated to
\* the header count.
C2_Rectangular ==
  pc = "parsed" =>
    \A i \in DOMAIN parsedData.rows :
      /\ Cardinality(DOMAIN parsedData.rows[i]) = Len(parsedData.headers)
      /\ \A j \in DOMAIN parsedData.headers :
           /\ parsedData.headers[j] \in DOMAIN parsedData.rows[i]
           /\ parsedData.rows[i][parsedData.headers[j]] =
                IF j <= Len(LineFields(RecordLine(i)))
                  THEN LineFields(RecordLine(i))[j] ELSE <<>>

\* C3: no two headers of a parsed dataset are equal, also when a suffixed
\* name collides with a name already present in the row.
C3_UniqueHeaders ==
  pc = "parsed" => ~HasDuplicates(parsedData.headers)

\* C8: every header of a parsed dataset is a non-empty string of letters and
\* digits only.
C8_HeadersPlaceholderSafe ==
  pc = "parsed" =>
    \A j \in DOMAIN parsedData.headers :
      /\ parsedData.headers[j] # <<>>
      /\ \A k \in DOMAIN parsedData.headers[j] :
           IsLetter(parsedData.headers[j][k]) \/ IsDigit(parsedData.headers[j][k])

ColumnNames(n) == [i \in 1..n |-> <<"C","o","l","u","m","n">> \o NatToStr(i)]

KnownCount(row) ==
  Cardinality({ i \in DOMAIN row : Trim(ToLowerCase(row[i])) \in KNOWN_HEADERS })

\* C7: hasHeaders is true exactly when the number m of dictionary names in
\* the first row satisfies m >= 2 or (m > 0 and m >= half the field count);
\* without headers the names are Column1..ColumnN and the first line is the
\* first record, with headers the first line is not a record.
C7_HeaderDetection ==
  (pc = "parsed" /\ Len(NonBlankLines(csvInput)) > 0) =>
    LET n == Len(LineFields(1))
        m == KnownCount(LineFields(1))
        nLines == Len(NonBlankLines(csvInput))
    IN  /\ parsedData.hasHeaders <=> (m >= 2 \/ (m > 0 /\ 2 * m >= n))
        /\ ~parsedData.hasHeaders =>
             /\ parsedData.headers = ColumnNames(n)
             /\ Len(parsedData.rows) = nLines
             /\ \A j \in 1..n : parsedData.rows[1][ColumnNames(n)[j]] = LineFields(1)[j]
        /\ parsedData.hasHeaders =>
             /\ Len(parsedData.rows) = nLines - 1
             /\ \A i \in DOMAIN parsedData.rows :
                  parsedData.rows[i] = rowObject(parsedData.headers, LineFields(i + 1))

\* C7 witness: after a leading blank line, one dictionary name among three
\* fields is not a header row, and the first non-blank line is kept as a record
C7_Witness ==
  /\ pc = "parsed"
  /\ csvInput # <<>> /\ Head(csvInput) = " "
  /\ Len(NonBlankLines(csvInput)) = 3
  /\ Len(LineFields(1)) = 3
  /\ KnownCount(LineFields(1)) = 1
  /\ ~parsedData.hasHeaders
  /\ Len(parsedData.rows) = 3

\* the delimiter the first line that survives the dropping of blank lines
\* calls for: tab when it has more tabs than commas
delimiterOfFirstRow(text) ==
  LET first == NonBlankLines(text)[1]
  IN  IF CountChar(first, "\t") > CountChar(first, ",") THEN "\t" ELSE ","

\* C15: the delimiter is the one the first non-blank line calls for, tab
\* when that line has more tabs than commas and comma otherwise, and every
\* line is tokenized with it, also when blank lines precede the first row.
C15_DelimiterFromFirstRow ==
  (pc = "parsed" /\ NonBlankLines(csvInput) # <<>>) =>
    LET textLines == NonBlankLines(csvInput)
        delimiter == delimiterOfFirstRow(csvInput)
        firstRow == parseLine(textLines[1], delimiter)
        hasHeaders == detectHeaders(firstRow)
        dataStartIndex == IF hasHeaders THEN 1 ELSE 0
        headers == uniqueHeaders(rawHeadersOf(firstRow))
    IN  /\ parsedData.hasHeaders = hasHeaders
        /\ parsedData.headers = headers
        /\ parsedData.rows =
             [i \in 1..(Len(textLines) - dataStartIndex) |->
                rowObject(headers, parseLine(textLines[i + dataStartIndex], delimiter))]


(***************************************************************************)
(* Inputs of the substitution: a template of up to MaxPieces pieces and a  *)
(* record with the headers A and B (or A alone)                            *)
(***************************************************************************)
MaxPieces == 4

TemplatePieces ==
  { <<"<","<">>, <<">",">">>, <<"<">>, <<">">>, <<" ">>, <<"A">>, <<"B">>, <<"x">>,
    <<"v","a","l","u","e","O","f">> }

Templates == { Concat(ps) : ps \in SeqsUpTo(TemplatePieces, 0, MaxPieces) }

TokenA == <<"<","<","A",">",">">>

TokenB == <<"<","<","B",">",">">>

\* an empty field, a field that is itself a placeholder of another header,
\* a field that is its own placeholder, and a record without the header B
RecordChoices ==
  { (<<"A">> :> <<>>    @@ <<"B">> :> <<"v">>),
    (<<"A">> :> TokenB  @@ <<"B">> :> <<"w">>),
    (<<"A">> :> TokenA  @@ <<"B">> :> <<>>),
    (<<"A">> :> <<"v">>) }

InitTemplate ==
  /\ pc = "template"
  /\ template \in Templates
  /\ record \in RecordChoices
  /\ content = <<>>
  /\ CsvIdle /\ MarkdownIdle /\ WrapIdle /\ PdfIdle /\ ScanIdle /\ AppIdle

ApplyTemplate ==
  /\ pc = "template"
  /\ content' = applyTemplate(template, record)
  /\ pc' = "merged"
  /\ UNCHANGED <<csvInput, parsedData, template, record, mdText, segments,
                 wrapIn, lines, pdf, scan, app>>

NextTemplate == ApplyTemplate

SpecTemplate == InitTemplate /\ [][NextTemplate]_vars

(***************************************************************************)
(* Claims about the substitution                                           *)
(***************************************************************************)
NoAngle(s) == \A k \in DOMAIN s : s[k] # "<" /\ s[k] # ">"

\* template = pre <<id>> post with no angle bracket in pre, id and post
IsSingleToken(i, j) ==
  /\ i + 2 < j /\ j < Len(template)
  /\ StartsWithAt(template, <<"<","<">>, i)
  /\ StartsWithAt(template, <<">",">">>, j)
  /\ NoAngle(SubSeq(template, 1, i - 1))
  /\ NoAngle(SubSeq(template, i + 2, j - 1))
  /\ NoAngle(SubSeq(template, j + 2, Len(template)))

TokenKey(i, j) == Trim(SubSeq(template, i + 2, j - 1))

Around(i, j, value) ==
  SubSeq(template, 1, i - 1) \o value \o SubSeq(template, j + 2, Len(template))

\* a "<<", at least one character other than '>', and a ">>"
HasPlaceholder(s) ==
  \E i, j \in DOMAIN s :
    /\ i + 2 < j
    /\ StartsWithAt(s, <<"<","<">>, i)
    /\ StartsWithAt(s, <<">",">">>, j)
    /\ \A k \in (i + 2)..(j - 1) : s[k] # ">"

\* C4: a token whose trimmed identifier is a header of the record is replaced
\* by the field value (the empty string included), a token whose identifier
\* is not a header stays verbatim, and a template without a placeholder is
\* returned unchanged.
C4_Substitution ==
  pc = "merged" =>
    /\ \A i, j \in DOMAIN template :
         IsSingleToken(i, j) =>
           content = IF TokenKey(i, j) \in DOMAIN record
                       THEN Around(i, j, record[TokenKey(i, j)])
                       ELSE template
    /\ ~HasPlaceholder(template) => content = template

\* C9: a substituted value of the form <<Name>> appears literally in the
\* output, even where Name is a header of the record.
C9_SinglePass ==
  pc = "merged" =>
    \A i, j \in DOMAIN template :
      (IsSingleToken(i, j) /\ TokenKey(i, j) \in DOMAIN record) =>
        content = Around(i, j, record[TokenKey(i, j)])

\* C9 witness: <<A>> was replaced by the field "<<B>>" of a record that has
\* a header B, and "<<B>>" is in the output
C9_Witness ==
  /\ pc = "merged"
  /\ template = <<"x">> \o TokenA
  /\ <<"B">> \in DOMAIN record
  /\ record[<<"A">>] = TokenB
  /\ content = <<"x">> \o TokenB

(***************************************************************************)
(* Inputs of the segmenter: every text of up to MaxMdLen characters        *)
(***************************************************************************)
MaxMdLen == 5

MdAlphabet == { "*", "_", "~", "\\", "a", "\n" }

MdTexts == SeqsUpTo(MdAlphabet, 0, MaxMdLen)

InitMarkdown ==
  /\ pc = "markdown"
  /\ mdText \in MdTexts
  /\ segments = <<>>
  /\ CsvIdle /\ TemplateIdle /\ WrapIdle /\ PdfIdle /\ ScanIdle /\ AppIdle

ParseMarkdown ==
  /\ pc = "markdown"
  /\ segments' = parseMarkdownToSegments(mdText)
  /\ pc' = "segmented"
  /\ UNCHANGED <<csvInput, parsedData, template, record, content, mdText,
                 wrapIn, lines, pdf, scan, app>>

NextMarkdown == ParseMarkdown

SpecMarkdown == InitMarkdown /\ [][NextMarkdown]_vars

(***************************************************************************)
(* Claims about the segmenter                                              *)
(***************************************************************************)
IsStar(c) == c = "*" \/ c = "_"

TextRuns(segs) == { k \in DOMAIN segs : ~segs[k].newline }

\* s opens bold and holds no other bold or italic marker
OpensBold(s) ==
  /\ Len(s) > 2
  /\ IsStar(s[1]) /\ s[2] = s[1]
  /\ \A k \in 3..Len(s) : ~IsStar(s[k])

\* s opens underline and holds no other tilde
OpensUnderline(s) ==
  /\ Len(s) > 2
  /\ s[1] = "~" /\ s[2] = "~"
  /\ \A k \in 3..Len(s) : s[k] # "~"

SegmentsOfLine(segs, n) ==
  { k \in TextRuns(segs) :
      Cardinality({ b \in 1..k : segs[b].newline }) = n - 1 }

MaxWrapSegments == 3

MaxBoxWidth == 4

WrapTexts ==
  { <<"a">>, <<"a","a"," ","a">>, <<" ","a"," ">>, <<"a"," "," ","a","a","a">> }

HeavyStyle == [bold |-> TRUE, italic |-> FALSE, underline |-> TRUE]

WrapSegmentChoices ==
  { TextSegment(t, s) : t \in WrapTexts, s \in {PlainStyle, HeavyStyle} }
  \cup { NewlineSegment }

MetricsChoices ==
  { [letter |-> 1, space |-> 1, bold |-> 0],
    [letter |-> 2, space |-> 1, bold |-> 1],
    [letter |-> 1, space |-> 0, bold |-> 1] }

InitWrap ==
  /\ pc = "wrap"
  /\ wrapIn \in [segments : SeqsUpTo(WrapSegmentChoices, 0, MaxWrapSegments),
                 maxWidth : 0..MaxBoxWidth,
                 metrics : MetricsChoices]
  /\ lines = <<>>
  /\ CsvIdle /\ TemplateIdle /\ MarkdownIdle /\ PdfIdle /\ ScanIdle /\ AppIdle

SplitIntoLines ==
  /\ pc = "wrap"
  /\ lines' = splitIntoLines(wrapIn.segments, wrapIn.metrics, wrapIn.maxWidth)
  /\ pc' = "wrapped"
  /\ UNCHANGED <<csvInput, parsedData, template, record, content, mdText,
                 segments, wrapIn, pdf, scan, app>>

NextWrap == SplitIntoLines

SpecWrap == InitWrap /\ [][NextWrap]_vars

(***************************************************************************)
(* Claims about the wrapper                                                *)
(***************************************************************************)
FragmentWidth(f) ==
  widthOfString(wrapIn.metrics, getFontName(f.bold, f.italic), f.text)

\* C6: the fragment widths of every line sum to at most the maximum width,
\* unless the line is a single token wider than the maximum width.
C6_WrapWidthBound ==
  pc = "wrapped" =>
    \A n \in DOMAIN lines :
      \/ lineWidthOf(wrapIn.metrics, lines[n]) <= wrapIn.maxWidth
      \/ Len(lines[n]) = 1 /\ FragmentWidth(lines[n][1]) > wrapIn.maxWidth

\* C6 witness: one line filled to exactly the maximum width by several
\* fragments, and one line holding a single token wider than the maximum
C6_Witness ==
  /\ pc = "wrapped"
  /\ \E n \in DOMAIN lines :
       Len(lines[n]) > 1 /\ lineWidthOf(wrapIn.metrics, lines[n]) = wrapIn.maxWidth
  /\ \E n \in DOMAIN lines :
       Len(lines[n]) = 1 /\ FragmentWidth(lines[n][1]) > wrapIn.maxWidth

\* C17: every line has at least one fragment and its first fragment is not
\* made of white space only; a line-break segment closes the current line,
\* so the lines are those of the segments before it followed by those of
\* the segments after it, and line breaks in a row add no empty line.
C17_LineBreaksCloseLines ==
  pc = "wrapped" =>
    /\ \A n \in DOMAIN lines :
         /\ Len(lines[n]) >= 1
         /\ Trim(lines[n][1].text) # <<>>
         /\ \A j \in DOMAIN lines[n] : ~lines[n][j].newline
    /\ \A k \in DOMAIN wrapIn.segments :
         wrapIn.segments[k].newline =>
           lines = splitIntoLines(SubSeq(wrapIn.segments, 1, k - 1),
                                  wrapIn.metrics, wrapIn.maxWidth)
                   \o splitIntoLines(SubSeq(wrapIn.segments, k + 1,
                                            Len(wrapIn.segments)),
                                     wrapIn.metrics, wrapIn.maxWidth)

\* C17 witness: two fragments that would fit on one line are separated by
\* a line break and stand on two lines, the second without its leading blank
C17_Witness ==
  /\ pc = "wrapped"
  /\ Len(wrapIn.segments) = 3
  /\ ~wrapIn.segments[1].newline
  /\ wrapIn.segments[2].newline
  /\ wrapIn.segments[3] = TextSegment(<<" ", "a", " ">>, PlainStyle)
  /\ Len(lines) = 2
  /\ lineWidthOf(wrapIn.metrics, lines[1]) + lineWidthOf(wrapIn.metrics, lines[2])
       <= wrapIn.maxWidth
  /\ lines[2][1].text = <<"a">>

(***************************************************************************)
(* generatePDF, statement by statement.  pdf holds the options (format,    *)
(* template, data, showCutMarks, showBorders), the loop counters page, row *)
(* and col, and what the document has received: the number of pages added, *)
(* the cut marks, the border rectangles and the labels handed to           *)
(* renderLabelContent.                                                     *)
(***************************************************************************)
MaxColumns == 3

MaxRows == 3

MaxRecords == 7

\* label geometry: one layout without margins and gaps, one with both
GeometryChoices ==
  { [marginLeft |-> 0, marginTop |-> 0, labelWidth |-> 10, labelHeight |-> 5,
     horizontalGap |-> 0, verticalGap |-> 0],
    [marginLeft |-> 3, marginTop |-> 7, labelWidth |-> 10, labelHeight |-> 5,
     horizontalGap |-> 2, verticalGap |-> 4] }

FormatChoices ==
  { [columns |-> c, rows |-> r, marginLeft |-> g.marginLeft, marginTop |-> g.marginTop,
     labelWidth |-> g.labelWidth, labelHeight |-> g.labelHeight,
     horizontalGap |-> g.horizontalGap, verticalGap |-> g.verticalGap] :
      c \in 1..MaxColumns, r \in 1..MaxRows, g \in GeometryChoices }

\* record i carries its own index in the field A
DataOf(count) == [i \in 1..count |-> (<<"A">> :> NatToStr(i - 1))]

InitPDF ==
  /\ pc = "pages"
  /\ \E f \in FormatChoices, count \in 0..MaxRecords, marks, borders \in BOOLEAN :
       pdf = [format |-> f, template |-> <<"#">> \o TokenA, data |-> DataOf(count),
              showCutMarks |-> marks, showBorders |-> borders,
              page |-> 0, row |-> 0, col |-> 0,
              pages |-> 0, marks |-> <<>>, rects |-> <<>>, labels |-> <<>>]
  /\ CsvIdle /\ TemplateIdle /\ MarkdownIdle /\ WrapIdle /\ ScanIdle /\ AppIdle

PdfUnchanged ==
  UNCHANGED <<csvInput, parsedData, template, record, content, mdText, segments,
              wrapIn, lines, scan, app>>

\* for (page ...; page < totalPages; ...) { doc.addPage();
\* if (showCutMarks) drawCutMarks(doc, format); ...
AddPage ==
  /\ pc = "pages"
  /\ pdf.page < totalPagesOf(Len(pdf.data), pdf.format)
  /\ pdf' = [pdf EXCEPT
       !.pages = @ + 1,
       !.marks = IF pdf.showCutMarks THEN Append(@, drawCutMarks(pdf.format)) ELSE @,
       !.row = 0, !.col = 0]
  /\ pc' = "labels"
  /\ PdfUnchanged

\* the body of the inner loop for a dataIndex below data.length: the border,
\* applyTemplate and renderLabelContent (data[dataIndex] is then a row
\* object, so `if (!record) continue` skips nothing)
DrawLabel ==
  /\ pc = "labels"
  /\ pdf.row < pdf.format.rows /\ pdf.col < pdf.format.columns
  /\ LET dataIndex == dataIndexOf(pdf.page, pdf.row, pdf.col, pdf.format)
         x == labelX(pdf.col, pdf.format)
         y == labelY(pdf.row, pdf.format)
     IN  /\ dataIndex < Len(pdf.data)
         /\ pdf' = [pdf EXCEPT
              !.rects = IF pdf.showBorders
                          THEN Append(@, [page |-> pdf.pages - 1, x |-> x, y |-> y,
                                          width |-> pdf.format.labelWidth,
                                          height |-> pdf.format.labelHeight])
                          ELSE @,
              !.labels = Append(@, [page |-> pdf.pages - 1, row |-> pdf.row,
                                    col |-> pdf.col, dataIndex |-> dataIndex,
                                    x |-> x, y |-> y,
                                    content |-> applyTemplate(pdf.template,
                                                              pdf.data[dataIndex + 1])]),
              !.col = @ + 1]
  /\ UNCHANGED pc
  /\ PdfUnchanged

\* if (dataIndex >= data.length) break: leaves the loop over the columns
BreakRow ==
  /\ pc = "labels"
  /\ pdf.row < pdf.format.rows /\ pdf.col < pdf.format.columns
  /\ dataIndexOf(pdf.page, pdf.row, pdf.col, pdf.format) >= Len(pdf.data)
  /\ pdf' = [pdf EXCEPT !.row = @ + 1, !.col = 0]
  /\ UNCHANGED pc
  /\ PdfUnchanged

\* col reached format.columns: the next row
NextRow ==
  /\ pc = "labels"
  /\ pdf.row < pdf.format.rows /\ pdf.col = pdf.format.columns
  /\ pdf' = [pdf EXCEPT !.row = @ + 1, !.col = 0]
  /\ UNCHANGED pc
  /\ PdfUnchanged

\* row reached format.rows: page++
NextPage ==
  /\ pc = "labels"
  /\ pdf.row = pdf.format.rows
  /\ pdf' = [pdf EXCEPT !.page = @ + 1]
  /\ pc' = "pages"
  /\ PdfUnchanged

\* page reached totalPages: doc.end()
EndDocument ==
  /\ pc = "pages"
  /\ pdf.page >= totalPagesOf(Len(pdf.data), pdf.format)
  /\ pc' = "ended"
  /\ UNCHANGED pdf
  /\ PdfUnchanged

NextPDF == AddPage \/ DrawLabel \/ BreakRow \/ NextRow \/ NextPage \/ EndDocument

SpecPDF == InitPDF /\ [][NextPDF]_vars

(***************************************************************************)
(* Claims about generatePDF                                                *)
(***************************************************************************)
\* where the grid formula puts record index i (0-based)
GridPlace(i, format) ==
  LET perPage == format.columns * format.rows
      withinPage == i % perPage
  IN  [page |-> i \div perPage,
       row |-> withinPage \div format.columns,
       col |-> withinPage % format.columns]

\* C1: record indices 0..n-1 are drawn exactly once each, in increasing
\* order, index i at page i div (columns*rows), row (i mod (columns*rows)) div
\* columns, column (i mod (columns*rows)) mod columns, with the box origin
\* x = marginLeft + column*(labelWidth + horizontalGap) and
\* y = marginTop + row*(labelHeight + verticalGap); no index >= n is drawn.
C1_GridPlacement ==
  /\ pc \in {"pages", "labels", "ended"} =>
       \A k \in DOMAIN pdf.labels :
         LET at == GridPlace(k - 1, pdf.format)
             drawn == pdf.labels[k]
         IN  /\ drawn.dataIndex = k - 1
             /\ drawn.dataIndex < Len(pdf.data)
             /\ drawn.content = <<"#">> \o NatToStr(k - 1)
             /\ drawn.page = at.page /\ drawn.row = at.row /\ drawn.col = at.col
             /\ drawn.x = pdf.format.marginLeft
                          + at.col * (pdf.format.labelWidth + pdf.format.horizontalGap)
             /\ drawn.y = pdf.format.marginTop
                          + at.row * (pdf.format.labelHeight + pdf.format.verticalGap)
  /\ pc = "ended" => Len(pdf.labels) = Len(pdf.data)

\* C1 witness: seven records on a grid of two columns and three rows, with
\* index 6 on page 1 at row 0, column 0
C1_Witness ==
  /\ pc = "ended"
  /\ Len(pdf.data) = 7 /\ pdf.format.columns = 2 /\ pdf.format.rows = 3
  /\ pdf.format.marginLeft = 3
  /\ Len(pdf.labels) = 7
  /\ pdf.labels[7].page = 1 /\ pdf.labels[7].row = 0 /\ pdf.labels[7].col = 0
  /\ pdf.labels[7].x = 3 /\ pdf.labels[7].y = 7
  /\ pdf.labels[6].x = 15 /\ pdf.labels[6].y = 25

\* C10: the document gets ceil(recordCount / (columns*rows)) pages, none for
\* no records, which is the page count the interface announces.
C10_PageCount ==
  pc = "ended" =>
    LET n == Len(pdf.data)
        perPage == pdf.format.columns * pdf.format.rows
    IN  /\ pdf.pages * perPage >= n
        /\ pdf.pages > 0 => (pdf.pages - 1) * perPage < n
        /\ n = 0 => pdf.pages = 0
        /\ n > 0 => pdf.pages = announcedPages(n, pdf.format)

\* C10 witness: seven records at six labels per page end with two pages
C10_Witness ==
  /\ pc = "ended"
  /\ Len(pdf.data) = 7 /\ pdf.format.columns * pdf.format.rows = 6
  /\ pdf.pages = 2

\* the rectangle covered by the labels of a page
gridLeft(format) == labelX(0, format)

gridTop(format) == labelY(0, format)

gridRight(format) == labelX(format.columns - 1, format) + format.labelWidth

gridBottom(format) == labelY(format.rows - 1, format) + format.labelHeight

\* a mark that lies left of the left edge, right of the right edge, above
\* the top edge or below the bottom edge of the grid
Outward(mark, format) ==
  \/ /\ mark.y1 = mark.y2
     /\ \/ SetMax({mark.x1, mark.x2}) <= gridLeft(format)
        \/ SetMin({mark.x1, mark.x2}) >= gridRight(format)
  \/ /\ mark.x1 = mark.x2
     /\ \/ SetMax({mark.y1, mark.y2}) <= gridTop(format)
        \/ SetMin({mark.y1, mark.y2}) >= gridBottom(format)

OnGridEdge(row, col, format) ==
  row = 0 \/ col = 0 \/ row = format.rows \/ col = format.columns

\* C14: the marks of a page are those of the paper format alone, and every
\* mark emitted at an intersection on an edge or corner of the grid lies
\* outside the grid, on the side of that edge: none runs along or into the
\* label area.
C14_MarksOutward ==
  (pc \in {"pages", "labels", "ended"} /\ pdf.showCutMarks) =>
    \A p \in DOMAIN pdf.marks :
      /\ pdf.marks[p] = drawCutMarks(pdf.format)
      /\ \A row \in 0..pdf.format.rows, col \in 0..pdf.format.columns :
           OnGridEdge(row, col, pdf.format) =>
             \A mark \in Range(cutMarksAt(row, col, pdf.format)) :
               /\ mark \in Range(pdf.marks[p])
               /\ Outward(mark, pdf.format)

(***************************************************************************)
(* handleGeneratePDF.  app holds the App state the handler reads and       *)
(* writes (rowCount = parsedData.rows.length, hasFormat = selectedFormat   *)
(* is defined, isGenerating, error), one record per invocation of the      *)
(* handler, the downloads triggered so far, and running: the invocation    *)
(* whose synchronous part is executing (JavaScript runs it to completion   *)
(* before any other callback), or 0.                                       *)
(*                                                                         *)
(* The handler is entered by a click on the button, which the interface    *)
(* offers only while the button is enabled, or by a direct call of the     *)
(* callback: the handler itself never tests isGenerating.                  *)
(***************************************************************************)
MaxInvocations == 2

\* the Errors the document backend can fail with
LayoutErrors == { "layout failed" }

StreamErrors == { "stream failed" }

InitGenerate ==
  /\ pc = "app"
  /\ \E rowCount \in {0, 2}, hasFormat \in BOOLEAN :
       app = [rowCount |-> rowCount, hasFormat |-> hasFormat,
              isGenerating |-> FALSE, error |-> NoError,
              invocations |-> <<>>, downloads |-> <<>>, running |-> 0]
  /\ CsvIdle /\ TemplateIdle /\ MarkdownIdle /\ WrapIdle /\ PdfIdle /\ ScanIdle

AppUnchanged ==
  UNCHANGED <<pc, csvInput, parsedData, template, record, content, mdText,
              segments, wrapIn, lines, pdf, scan>>

\* handleGeneratePDF from its first statement to the try: the validation,
\* and for a valid request setIsGenerating(true); setError(null)
HandlerStart(via) ==
  /\ app.running = 0
  /\ Len(app.invocations) < MaxInvocations
  /\ LET id == Len(app.invocations) + 1
         invalid == validationError(app.hasFormat, app.rowCount)
         invocation == [via |-> via,
                        generatingAtStart |-> app.isGenerating,
                        step |-> IF invalid # NoError THEN "returned" ELSE "try",
                        outcome |-> IF invalid # NoError THEN "invalid" ELSE "none",
                        called |-> FALSE,
                        promise |-> NoPromise,
                        reported |-> invalid]
     IN  app' = [app EXCEPT
           !.invocations = Append(@, invocation),
           !.error = invalid,
           !.isGenerating = IF invalid # NoError THEN @ ELSE TRUE,
           !.running = IF invalid # NoError THEN 0 ELSE id]
  /\ AppUnchanged

\* onClick={handleGeneratePDF} on a button that is not disabled
ClickGenerate ==
  /\ ~buttonDisabled(app.isGenerating, app.rowCount)
  /\ HandlerStart("click")

\* the callback entered directly
CallHandler ==
  /\ pc = "app"
  /\ HandlerStart("call")

\* generatePDF(options): the promise executor lays the document out and
\* calls doc.end(), or throws
CallGeneratePDF ==
  /\ app.running # 0
  /\ app.invocations[app.running].step = "try"
  /\ \E thrown \in {NoReason} \cup LayoutErrors :
       app' = [app EXCEPT
         !.invocations[app.running] =
            [@ EXCEPT !.called = TRUE, !.step = "await",
                      !.promise = promiseAfterLayout(thrown)],
         !.running = 0]
  /\ AppUnchanged

\* stream.on('finish', ...): resolve(blob)
StreamFinish ==
  /\ app.running = 0
  /\ \E i \in DOMAIN app.invocations :
       /\ app.invocations[i].promise.state = "pending"
       /\ app' = [app EXCEPT !.invocations[i].promise =
                    [state |-> "resolved", reason |-> NoReason]]
  /\ AppUnchanged

\* stream.on('error', reject)
StreamError ==
  /\ app.running = 0
  /\ \E i \in DOMAIN app.invocations, e \in StreamErrors :
       /\ app.invocations[i].promise.state = "pending"
       /\ app' = [app EXCEPT !.invocations[i].promise =
                    [state |-> "rejected", reason |-> e]]
  /\ AppUnchanged

\* the handler after the await: the download or the catch, then the finally
AwaitDone(i) ==
  /\ app.running = 0
  /\ app.invocations[i].step = "await"
  /\ app.invocations[i].promise.state \in {"resolved", "rejected"}
  /\ LET promise == app.invocations[i].promise
         ok == blobReady(promise)
     IN  app' = [app EXCEPT
           !.downloads = IF ok THEN deliver(@, i, Len(app.invocations)) ELSE @,
           !.error = IF ok THEN @ ELSE failureMessage(promise.reason),
           !.invocations[i] =
              [@ EXCEPT !.step = "returned",
                        !.outcome = IF ok THEN "downloaded" ELSE "failed",
                        !.reported = IF ok THEN NoError
                                     ELSE failureMessage(promise.reason)],
           !.isGenerating = finallyIsGenerating(@)]
  /\ AppUnchanged

Resume == \E i \in DOMAIN app.invocations : AwaitDone(i)

NextGenerate ==
  ClickGenerate \/ CallHandler \/ CallGeneratePDF \/ StreamFinish \/ StreamError
  \/ Resume

\* the event loop runs the rest of a started task and the continuation of a
\* settled await; nothing obliges the backend to signal or the user to click
SpecGenerate ==
  /\ InitGenerate /\ [][NextGenerate]_vars
  /\ WF_vars(CallGeneratePDF) /\ WF_vars(Resume)

(***************************************************************************)
(* Claims about handleGeneratePDF                                          *)
(***************************************************************************)
DownloadCount(i) ==
  Cardinality({ k \in DOMAIN app.downloads : app.downloads[k].id = i })

\* C11: invoked with an empty dataset or without a paper format, the handler
\* sets a validation message and returns: generatePDF is not called,
\* isGenerating stays false and nothing is downloaded.
C11_ValidationBlocks ==
  (pc = "app" /\ (app.rowCount = 0 \/ ~app.hasFormat)) =>
    /\ ~app.isGenerating
    /\ app.downloads = <<>>
    /\ \A i \in DOMAIN app.invocations :
         /\ app.invocations[i].step = "returned"
         /\ ~app.invocations[i].called
         /\ app.invocations[i].promise = NoPromise
         /\ app.invocations[i].reported
              \in {<<"Please select a paper format">>, <<"Please enter some data">>}
    /\ app.invocations # <<>> =>
         app.error = IF app.hasFormat THEN <<"Please enter some data">>
                     ELSE <<"Please select a paper format">>

\* C11 witness: the handler was entered with a format and no rows
C11_Witness ==
  /\ pc = "app"
  /\ app.rowCount = 0 /\ app.hasFormat
  /\ Len(app.invocations) = 1
  /\ app.error = <<"Please enter some data">>

Returned(i) == app.invocations[i].step = "returned"

Settled(i) == app.invocations[i].promise.state \in {"resolved", "rejected"}

InFlight(i) == app.invocations[i].outcome = "none"

GeneratingSafety ==
  pc = "app" =>
    /\ \A i \in DOMAIN app.invocations :
         app.invocations[i].step = "try" =>
           /\ app.isGenerating
           /\ app.error = NoError
           /\ ~app.invocations[i].called
    /\ (\A i \in DOMAIN app.invocations : ~InFlight(i)) => ~app.isGenerating

Started(i) == pc = "app" /\ i \in DOMAIN app.invocations

\* the backend has signalled its terminal event to invocation i, which has
\* not resumed yet
AwaitingSettled(i) == IF Started(i) THEN Settled(i) /\ ~Returned(i) ELSE FALSE

ReturnedIdle(i) == IF Started(i) THEN Returned(i) /\ ~app.isGenerating ELSE FALSE

\* C18: when generatePDF is about to start, isGenerating is true and error
\* is null; when no invocation is in flight isGenerating is false; and once
\* the promise of an invocation is settled, the invocation eventually
\* returns with isGenerating false.
C18_GeneratingFlag ==
  /\ []GeneratingSafety
  /\ \A i \in 1..MaxInvocations :
       AwaitingSettled(i) ~> ReturnedIdle(i)

\* C18 witness: an invocation ended after a failure of the backend and
\* isGenerating is false again
C18_Witness ==
  /\ pc = "app"
  /\ ~app.isGenerating
  /\ \E i \in DOMAIN app.invocations :
       app.invocations[i].outcome = "failed" /\ app.invocations[i].called

(***************************************************************************)
(* parseLine on its own: scan holds the two arguments and the result.      *)
(***************************************************************************)
MaxLineLen == 5

\* a delimiter of either kind, the quote, a letter and a blank
ScanAlphabet == { ",", "\t", "\"", "a", " " }

\* the two values detectDelimiter returns
Delimiters == { ",", "\t" }

InitScan ==
  /\ pc = "scan"
  /\ \E line \in SeqsUpTo(ScanAlphabet, 0, MaxLineLen), delimiter \in Delimiters :
       scan = [line |-> line, delimiter |-> delimiter, fields |-> <<>>]
  /\ CsvIdle /\ TemplateIdle /\ MarkdownIdle /\ WrapIdle /\ PdfIdle /\ AppIdle

ParseLine ==
  /\ pc = "scan"
  /\ scan' = [scan EXCEPT !.fields = parseLine(scan.line, scan.delimiter)]
  /\ pc' = "scanned"
  /\ UNCHANGED <<csvInput, parsedData, template, record, content, mdText,
                 segments, wrapIn, lines, pdf, app>>

NextScan == ParseLine

SpecScan == InitScan /\ [][NextScan]_vars

(***************************************************************************)
(* Claims about parseLine                                                  *)
(***************************************************************************)
\* the state of the scanner after each position of the line: unquoted,
\* quoted, or quoted with the second quote of a "" still to be skipped
ScannerStates(line) ==
  LET after[i \in 0..Len(line)] ==
        IF i = 0 THEN "unquoted"
        ELSE IF after[i - 1] = "skip" THEN "quoted"
        ELSE IF after[i - 1] = "quoted"
          THEN IF line[i] # "\"" THEN "quoted"
               ELSE IF i < Len(line) /\ line[i + 1] = "\"" THEN "skip"
               ELSE "unquoted"
        ELSE IF line[i] = "\"" THEN "quoted" ELSE "unquoted"
  IN  after

\* the positions where a delimiter is scanned in the unquoted state
FieldEnds(line, delimiter) ==
  { i \in DOMAIN line : ScannerStates(line)[i - 1] = "unquoted" /\ line[i] = delimiter }

\* what the character at position i adds to the current field
Contribution(line, delimiter, i) ==
  LET before == ScannerStates(line)[i - 1]
  IN  IF before = "skip" THEN <<>>
      ELSE IF before = "quoted"
        THEN IF line[i] # "\"" THEN <<line[i]>>
             ELSE IF ScannerStates(line)[i] = "skip" THEN <<"\"">>
             ELSE <<>>
      ELSE IF line[i] = "\"" \/ line[i] = delimiter THEN <<>>
      ELSE <<line[i]>>

\* the k-th field: what the positions between the (k-1)-th and the k-th
\* field end contribute, trimmed
ExpectedField(line, delimiter, k) ==
  LET ends == FieldEnds(line, delimiter)
      ordered == [n \in 1..Cardinality(ends) |->
                    CHOOSE e \in ends : Cardinality({ d \in ends : d < e }) = n - 1]
      from == IF k = 1 THEN 1 ELSE ordered[k - 1] + 1
      to == IF k > Cardinality(ends) THEN Len(line) ELSE ordered[k] - 1
  IN  Trim(Concat([j \in 1..(to - from + 1) |->
                     Contribution(line, delimiter, from + j - 1)]))

\* C16: parseLine returns, for any line, one field more than the number of
\* delimiters scanned in the unquoted state; a delimiter scanned in the
\* quoted state is part of the field, "" in the quoted state adds one quote
\* and stays quoted, and a lone quote changes the state and adds nothing.
C16_TwoStateScanner ==
  pc = "scanned" =>
    /\ Len(scan.fields) = 1 + Cardinality(FieldEnds(scan.line, scan.delimiter))
    /\ \A k \in DOMAIN scan.fields :
         scan.fields[k] = ExpectedField(scan.line, scan.delimiter, k)

\* C16 witness: a line with a quoted delimiter, an escaped quote and a quote
\* that is never closed was scanned into a single field
C16_Witness ==
  /\ pc = "scanned"
  /\ scan.delimiter = ","
  /\ scan.line = <<"\"", ",", "\"", "\"", ",">>
  /\ scan.fields = << <<",", "\"", ",">> >>

=============================================================================
